---------------------------- MODULE Spec2Model ----------------------------
(***************************************************************************)
(* HD2 Porting Assistant (hd2_porting_assistant.py): the naming            *)
(* classifier, the export operator, the sync operator with its group       *)
(* pruning and adjacent-swap reordering loops, and the custom-property     *)
(* overlay.                                                                *)
(*                                                                         *)
(* Names are sequences of one-character strings so that the regular        *)
(* expression \.\d{3}$ can be evaluated on them.  Python mappings are      *)
(* functions; a property store is a function from key to value.            *)
(***************************************************************************)
EXTENDS Integers, Sequences, FiniteSets, TLC

VARIABLES
    \* ---- the host scene (bpy objects) ----
    vertex_groups,     \* obj -> sequence of group names (obj.vertex_groups)
    deform,            \* obj -> vertex -> (group name -> weight) (vert.groups)
    matrix_world,      \* obj -> 4x4 matrix
    id_props,          \* obj -> property store (obj.keys() / obj[key])
    active_object,     \* bpy.context.view_layer.objects.active
    \* ---- durable storage ----
    file,              \* [exists, data]: vertex_groups_dump.json
    \* ---- one operator invocation ----
    pc,                \* position of the running operator
    op,                \* operator being run
    selected_objects,  \* context.selected_objects of the invocation
    reports,           \* self.report calls of the invocation
    original_data,     \* sync: json.load result
    pending,           \* sync: objects the for loop has still to visit
    obj,               \* sync: loop variable of line 178
    target_index,      \* sync: enumerate index of line 203
    pre,               \* the scene when the invocation started
    exported,          \* names the last successful export was asked to write
    \* ---- pure-function harnesses ----
    nm, nm_out, nm_n,  \* classifier: input, stripped name, strips applied
    p_obj, p_props, p_init, p_first, p_n  \* overlay: store, record, history

scene == <<vertex_groups, deform, matrix_world, id_props, active_object>>
locals == <<pc, op, selected_objects, reports, original_data, pending, obj,
            target_index, pre>>
harness == <<nm, nm_out, nm_n, p_obj, p_props, p_init, p_first, p_n>>
vars == <<scene, file, locals, exported, harness>>

-----------------------------------------------------------------------------
(* Bounds of the model *)

MaxGroups == 3      \* group names in play
MaxNameLen == 9     \* longest name given to the classifier
MaxApply == 2       \* overlay applications in a row
MaxStrip == 2       \* suffix strips in a row
MaxValue == 2       \* property values in play

-----------------------------------------------------------------------------
(* Naming classifier *)

Digits == {"0", "1", "2", "3", "4", "5", "6", "7", "8", "9"}
NL == "\n"

\* \.\d{3} matched at positions i .. i+3 of name
SuffixAt(name, i) ==
    /\ i >= 1 /\ i + 3 <= Len(name)
    /\ name[i] = "."
    /\ name[i + 1] \in Digits /\ name[i + 2] \in Digits /\ name[i + 3] \in Digits

\* Python's $ : the end of the string, or just before a newline that ends it
AtDollar(name, j) ==
    \/ j = Len(name) + 1
    \/ j = Len(name) /\ name[j] = NL

SuffixStarts(name) ==
    {i \in 1..Len(name) : SuffixAt(name, i) /\ AtDollar(name, i + 4)}

is_duplicate(name) == SuffixStarts(name) # {}

\* re.sub: every match replaced by ""; there is at most one match
get_original_name(name) ==
    IF SuffixStarts(name) = {} THEN name
    ELSE LET i == CHOOSE k \in SuffixStarts(name) :
                      \A m \in SuffixStarts(name) : k <= m
         IN  SubSeq(name, 1, i - 1) \o SubSeq(name, i + 4, Len(name))

-----------------------------------------------------------------------------
(* The scene *)

Arm == <<"A", "r", "m">>
Leg == <<"L", "e", "g">>
Cam == <<"C", "a", "m">>
Arm001 == Arm \o <<".", "0", "0", "1">>
Leg002 == Leg \o <<".", "0", "0", "2">>

Objects == {Arm, Leg, Arm001, Leg002, Cam}

type(o) == IF o = Cam THEN "CAMERA" ELSE "MESH"

GName == <<"Root", "Mid", "Tip", "Extra", "Aux", "Twist">>
GroupNames == {GName[i] : i \in 1..MaxGroups}

Range(s) == {s[i] : i \in DOMAIN s}

DupFreeSeqs(S) ==
    UNION {{s \in [1..k -> S] : \A i, j \in 1..k : i # j => s[i] # s[j]} :
           k \in 0..Cardinality(S)}

Vertices == {0, 1}

Identity4 == <<<<1, 0, 0, 0>>, <<0, 1, 0, 0>>, <<0, 0, 1, 0>>, <<0, 0, 0, 1>>>>
Translated(x) == <<<<1, 0, 0, x>>, <<0, 1, 0, 0>>, <<0, 0, 1, 0>>, <<0, 0, 0, 1>>>>

RNA_UI == "_RNA_UI"
EmptyMap == [k \in {} |-> 0]

\* vertex 0 carries every group of the object but the last one (a group may
\* have no vertex at all), vertex 1 only the first group; weights in percent
InitDeform(groups) ==
    [v \in Vertices |->
        IF groups = <<>> THEN EmptyMap
        ELSE IF v = 0
             THEN [g \in {groups[i] : i \in 1..(Len(groups) - 1)} |-> 100]
             ELSE [g \in {groups[1]} |-> 50]]

InitProps(o) ==
    IF o = Arm THEN
        [k \in {"health", RNA_UI} |->
            IF k = "health" THEN 80
            ELSE [m \in {"health"} |-> [min |-> 0, max |-> 100]]]
    ELSE IF o = Arm001 THEN
        [k \in {"health", "stamina", RNA_UI} |->
            IF k = "health" THEN 10
            ELSE IF k = "stamina" THEN 5
            ELSE [m \in {"stamina"} |-> [min |-> 0, max |-> 50]]]
    ELSE IF o = Leg002 THEN [k \in {"stamina"} |-> 7]
    ELSE EmptyMap

InitMatrix(o) ==
    IF o = Arm THEN Translated(1)
    ELSE IF o = Leg THEN Translated(2)
    ELSE Identity4


-----------------------------------------------------------------------------
(* Helpers of the operators *)

selected_mesh_objects(S) == {o \in S : type(o) = "MESH"}

\* dict restricted to the keys in K
Restrict(f, K) == [k \in DOMAIN f \cap K |-> f[k]]

\* position of a group in obj.vertex_groups, counted from 0 (vg.index);
\* -1 stands for vertex_groups.get(name) returning None
Index(groups, name) ==
    IF name \in Range(groups)
    THEN (CHOOSE i \in DOMAIN groups : groups[i] = name) - 1
    ELSE -1

-----------------------------------------------------------------------------
(* Custom properties *)

get_custom_properties(store) ==
    LET plain == Restrict(store, DOMAIN store \ {RNA_UI})
    IN  IF RNA_UI \in DOMAIN store
        THEN [k \in DOMAIN plain \cup {RNA_UI} |->
                 IF k = RNA_UI THEN store[RNA_UI] ELSE plain[k]]
        ELSE plain

\* the removal loop with the list() copy left out: deleting while iterating
\* makes the iterator step over the key that follows each deleted one
apply_custom_properties_skipping(store, props) ==
    LET extras == {k \in DOMAIN store : k # RNA_UI /\ k \notin DOMAIN props}
        gone == IF extras = {} THEN {}
                ELSE {CHOOSE k \in extras : TRUE}
        kept == Restrict(store, DOMAIN store \ gone)
        plain == DOMAIN props \ {RNA_UI}
        set == [k \in DOMAIN kept \cup plain |->
                   IF k \in plain THEN props[k] ELSE kept[k]]
    IN  IF RNA_UI \in DOMAIN props
        THEN [k \in DOMAIN set \cup {RNA_UI} |->
                 IF k = RNA_UI THEN props[RNA_UI] ELSE set[k]]
        ELSE set

\* the metadata of the record merged into the entity's (dict.update)
\* instead of replacing it
apply_custom_properties_merging(store, props) ==
    LET kept == Restrict(store,
                    {k \in DOMAIN store : k = RNA_UI \/ k \in DOMAIN props})
        plain == DOMAIN props \ {RNA_UI}
        set == [k \in DOMAIN kept \cup plain |->
                   IF k \in plain THEN props[k] ELSE kept[k]]
        old == IF RNA_UI \in DOMAIN store THEN store[RNA_UI] ELSE EmptyMap
    IN  IF RNA_UI \in DOMAIN props
        THEN [k \in DOMAIN set \cup {RNA_UI} |->
                 IF k = RNA_UI
                 THEN [m \in DOMAIN old \cup DOMAIN props[RNA_UI] |->
                          IF m \in DOMAIN props[RNA_UI]
                          THEN props[RNA_UI][m] ELSE old[m]]
                 ELSE set[k]]
        ELSE set

\* lines 67-84
apply_custom_properties(store, props) ==
    LET \* Remove properties not present on original
        kept == Restrict(store,
                    {k \in DOMAIN store : k = RNA_UI \/ k \in DOMAIN props})
        \* Apply original properties
        plain == DOMAIN props \ {RNA_UI}
        set == [k \in DOMAIN kept \cup plain |->
                   IF k \in plain THEN props[k] ELSE kept[k]]
    IN  \* Restore UI metadata
        IF RNA_UI \in DOMAIN props
        THEN [k \in DOMAIN set \cup {RNA_UI} |->
                 IF k = RNA_UI THEN props[RNA_UI] ELSE set[k]]
        ELSE set

-----------------------------------------------------------------------------
(* Export *)

\* json.dump writes a mapping's integer keys as strings
VertexKey(v) == IF v = 0 THEN "0" ELSE "1"

\* groups collected from the vertices' memberships alone: a group no vertex
\* belongs to gets no entry
obj_data_weighted_only(o) ==
    [matrix_world |-> [i \in 1..4 |-> [j \in 1..4 |-> matrix_world[o][i][j]]],
     group_order |-> vertex_groups[o],
     groups |-> [g \in {h \in Range(vertex_groups[o]) :
                           \E w \in Vertices : h \in DOMAIN deform[o][w]} |->
                   [v \in {w \in Vertices : g \in DOMAIN deform[o][w]} |->
                       deform[o][v][g]]],
     custom_properties |-> get_custom_properties(id_props[o])]

\* lines 111-135: the record built for one object, as Python holds it
obj_data(o) ==
    [matrix_world |-> [i \in 1..4 |-> [j \in 1..4 |-> matrix_world[o][i][j]]],
     group_order |-> vertex_groups[o],
     groups |-> [g \in Range(vertex_groups[o]) |->
                   [v \in {w \in Vertices : g \in DOMAIN deform[o][w]} |->
                       deform[o][v][g]]],
     custom_properties |-> get_custom_properties(id_props[o])]

json_weights(w) ==
    [k \in {VertexKey(v) : v \in DOMAIN w} |->
        w[CHOOSE v \in DOMAIN w : VertexKey(v) = k]]

json_record(r) ==
    [r EXCEPT !.groups = [g \in DOMAIN r.groups |-> json_weights(r.groups[g])]]

json_dump(data) == [n \in DOMAIN data |-> json_record(data[n])]

\* the poll without its test for duplicates
export_poll_nonempty(S) == selected_mesh_objects(S) # {}

\* lines 96-102
export_poll(S) ==
    /\ selected_mesh_objects(S) # {}
    /\ ~ \E o \in selected_mesh_objects(S) : is_duplicate(o)

\* lines 156-165
sync_poll(S) ==
    /\ selected_mesh_objects(S) # {}
    /\ ~ \E o \in selected_mesh_objects(S) : ~ is_duplicate(o)
    /\ file.exists


\* the mapping handed to json.dump, merged into what the file already holds
\* instead of replacing it
export_data_merged(S) ==
    LET new == [o \in selected_mesh_objects(S) |-> obj_data(o)]
    IN  [n \in DOMAIN file.data \cup DOMAIN new |->
            IF n \in DOMAIN new THEN new[n] ELSE file.data[n]]

\* lines 107-137: data, keyed by obj.name
export_data(S) == [o \in selected_mesh_objects(S) |-> obj_data(o)]

-----------------------------------------------------------------------------
(* Sync *)

NoObj == <<>>

Before ==
    [vertex_groups |-> vertex_groups, deform |-> deform,
     matrix_world |-> matrix_world, id_props |-> id_props, file |-> file]
NoBefore == [none |-> TRUE]

Info(text) == [level |-> "INFO", text |-> text, name |-> NoObj]
Warning(text, o) == [level |-> "WARNING", text |-> text, name |-> o]

\* the test of line 194 inverted
prune_inverted(groups, original_groups) ==
    SelectSeq(groups, LAMBDA g : g \notin original_groups)

\* lines 192-198: the groups left after every group outside original_groups
\* is removed
prune(groups, original_groups) ==
    SelectSeq(groups, LAMBDA g : g \in original_groups)

\* bpy.ops.object.vertex_group_move(direction='UP') with active_index = i
\* (counted from 0): the group changes place with its predecessor
vertex_group_move_up(groups, i) ==
    IF i >= 1 /\ i < Len(groups)
    THEN [groups EXCEPT ![i] = groups[i + 1], ![i + 1] = groups[i]]
    ELSE groups

\* Matrix(original["matrix_world"])
Matrix(rows) == [i \in 1..4 |-> [j \in 1..4 |-> rows[i][j]]]

original == original_data[get_original_name(obj)]
desired_order == original.group_order

-----------------------------------------------------------------------------
(* The operators as a state machine.  An operator runs to completion: while  *)
(* pc is not "idle" only its own next step is enabled.                       *)

IdleLocals ==
    /\ pc' = "idle"
    /\ op' = "none"
    /\ selected_objects' = {}
    /\ reports' = {}
    /\ original_data' = EmptyMap
    /\ pending' = {}
    /\ obj' = NoObj
    /\ target_index' = 0
    /\ pre' = NoBefore

\* the operator is invoked on selection S
Invoke(name, S) ==
    /\ pc = "idle"
    /\ op' = name
    /\ selected_objects' = S
    /\ pre' = Before

\* poll() of the export operator fails: the operator does not run
ExportRefused ==
    \E S \in SUBSET Objects :
        /\ Invoke("export", S)
        /\ ~ export_poll(S)
        /\ pc' = "poll_failed"
        /\ UNCHANGED <<scene, file, exported, harness, reports, original_data,
                       pending, obj, target_index>>

\* HD2_OT_export_original.execute
ExportExecute ==
    \E S \in SUBSET Objects :
        /\ Invoke("export", S)
        /\ export_poll(S)
        /\ file' = [exists |-> TRUE, data |-> json_dump(export_data(S))]
        /\ exported' = selected_mesh_objects(S)
        /\ reports' = {Info("Original data exported")}
        /\ pc' = "return"
        /\ UNCHANGED <<scene, harness, original_data, pending, obj,
                       target_index>>

\* poll() of the sync operator fails: the operator does not run
SyncRefused ==
    \E S \in SUBSET Objects :
        /\ Invoke("sync", S)
        /\ ~ sync_poll(S)
        /\ pc' = "poll_failed"
        /\ UNCHANGED <<scene, file, exported, harness, reports, original_data,
                       pending, obj, target_index>>

\* HD2_OT_sync_duplicates.execute up to the for loop of line 178
SyncBegin ==
    \E S \in SUBSET Objects :
        /\ Invoke("sync", S)
        /\ sync_poll(S)
        /\ file.exists
        /\ original_data' = file.data
        /\ pending' = selected_mesh_objects(S)
        /\ reports' = {}
        /\ pc' = "loop"
        /\ UNCHANGED <<scene, file, exported, harness, obj, target_index>>

\* the loop ends as soon as one original is missing
SyncMissingAborts ==
    /\ pc = "loop"
    /\ \E o \in pending :
        /\ get_original_name(o) \notin DOMAIN original_data
        /\ reports' = reports \cup {Warning("Original not found for", o)}
        /\ pending' = {}
    /\ UNCHANGED <<scene, file, exported, harness, pc, op, selected_objects,
                   original_data, obj, target_index, pre>>

\* lines 180-184: no record for the object's original name
SyncMissing ==
    /\ pc = "loop"
    /\ \E o \in pending :
        /\ get_original_name(o) \notin DOMAIN original_data
        /\ reports' = reports \cup {Warning("Original not found for", o)}
        /\ pending' = pending \ {o}
    /\ UNCHANGED <<scene, file, exported, harness, pc, op, selected_objects,
                   original_data, obj, target_index, pre>>

\* lines 186-201: remove extra groups, make the object active
SyncPrune ==
    /\ pc = "loop"
    /\ \E o \in pending :
        /\ get_original_name(o) \in DOMAIN original_data
        /\ LET original_groups ==
                   DOMAIN original_data[get_original_name(o)].groups
           IN  /\ vertex_groups' =
                     [vertex_groups EXCEPT ![o] = prune(@, original_groups)]
               /\ deform' =
                     [deform EXCEPT ![o] =
                         [v \in Vertices |->
                             Restrict(@[v], Range(vertex_groups'[o]))]]
        /\ active_object' = o
        /\ obj' = o
    /\ target_index' = 0
    /\ pc' = "order"
    /\ UNCHANGED <<matrix_world, id_props, file, exported, harness, op,
                   selected_objects, reports, original_data, pending, pre>>

InOrderLoop == pc = "order" /\ target_index < Len(desired_order)

\* the while loop stops one place short of the target
needs_move_off_by_one(index, target) == index > target + 1

\* line 209: vg.index > target_index
needs_move(index, target) == index > target

group_name == desired_order[target_index + 1]

\* lines 205-207: the duplicate has no group of that name
OrderSkip ==
    /\ InOrderLoop
    /\ Index(vertex_groups[obj], group_name) = -1
    /\ target_index' = target_index + 1
    /\ UNCHANGED <<scene, file, exported, harness, pc, op, selected_objects,
                   reports, original_data, pending, obj, pre>>

\* lines 209-211: one turn of the while loop
OrderMove ==
    /\ InOrderLoop
    /\ Index(vertex_groups[obj], group_name) # -1
    /\ needs_move(Index(vertex_groups[obj], group_name), target_index)
    /\ vertex_groups' =
          [vertex_groups EXCEPT ![active_object] =
              vertex_group_move_up(@, Index(vertex_groups[obj], group_name))]
    /\ UNCHANGED <<deform, matrix_world, id_props, active_object, file,
                   exported, harness, locals>>

\* line 209: the while condition is false, the for loop goes on
OrderPlaced ==
    /\ InOrderLoop
    /\ Index(vertex_groups[obj], group_name) # -1
    /\ ~ needs_move(Index(vertex_groups[obj], group_name), target_index)
    /\ target_index' = target_index + 1
    /\ UNCHANGED <<scene, file, exported, harness, pc, op, selected_objects,
                   reports, original_data, pending, obj, pre>>

\* lines 213-220: pivot and custom properties
SyncApply ==
    /\ pc = "order"
    /\ target_index = Len(desired_order)
    /\ matrix_world' =
          [matrix_world EXCEPT ![obj] = Matrix(original.matrix_world)]
    /\ id_props' =
          [id_props EXCEPT ![obj] =
              apply_custom_properties(@,
                  IF "custom_properties" \in DOMAIN original
                  THEN original.custom_properties ELSE EmptyMap)]
    /\ pending' = pending \ {obj}
    /\ obj' = NoObj
    /\ target_index' = 0
    /\ pc' = "loop"
    /\ UNCHANGED <<vertex_groups, deform, active_object, file, exported,
                   harness, op, selected_objects, reports, original_data, pre>>

\* line 222
SyncReport ==
    /\ pc = "loop"
    /\ pending = {}
    /\ reports' = reports \cup {Info("Duplicates synced successfully")}
    /\ pc' = "return"
    /\ UNCHANGED <<scene, file, exported, harness, op, selected_objects,
                   original_data, pending, obj, target_index, pre>>

\* the operator returns (or was refused): its locals are gone
Return ==
    /\ pc \in {"return", "poll_failed"}
    /\ IdleLocals
    /\ UNCHANGED <<scene, file, exported, harness>>

HarnessIdle ==
    /\ nm = <<>> /\ nm_out = <<>> /\ nm_n = 0
    /\ p_obj = EmptyMap /\ p_props = EmptyMap /\ p_init = EmptyMap
    /\ p_first = EmptyMap /\ p_n = 0

SceneIdle ==
    /\ vertex_groups = [o \in Objects |-> <<>>]
    /\ deform = [o \in Objects |-> InitDeform(<<>>)]
    /\ matrix_world = [o \in Objects |-> Identity4]
    /\ id_props = [o \in Objects |-> EmptyMap]
    /\ active_object = NoObj
    /\ file = [exists |-> FALSE, data |-> EmptyMap]
    /\ exported = {}
    /\ pc = "idle" /\ op = "none" /\ selected_objects = {} /\ reports = {}
    /\ original_data = EmptyMap /\ pending = {} /\ obj = NoObj
    /\ target_index = 0 /\ pre = NoBefore

Init ==
    /\ \E k \in 0..MaxGroups, d \in DupFreeSeqs(GroupNames) :
          vertex_groups =
              [o \in Objects |->
                  IF o = Arm THEN [i \in 1..k |-> GName[i]]
                  ELSE IF o = Arm001 THEN d
                  ELSE IF o = Leg THEN <<GName[1]>>
                  ELSE IF o = Leg002 THEN <<GName[2], GName[1]>>
                  ELSE <<>>]
    /\ deform = [o \in Objects |-> InitDeform(vertex_groups[o])]
    /\ matrix_world = [o \in Objects |-> InitMatrix(o)]
    /\ id_props = [o \in Objects |-> InitProps(o)]
    /\ active_object = NoObj
    /\ file = [exists |-> FALSE, data |-> EmptyMap]
    /\ exported = {}
    /\ pc = "idle" /\ op = "none" /\ selected_objects = {} /\ reports = {}
    /\ original_data = EmptyMap /\ pending = {} /\ obj = NoObj
    /\ target_index = 0 /\ pre = NoBefore
    /\ HarnessIdle

Next ==
    \/ ExportRefused
    \/ ExportExecute
    \/ SyncRefused
    \/ SyncBegin
    \/ SyncMissing
    \/ SyncPrune
    \/ OrderSkip
    \/ OrderMove
    \/ OrderPlaced
    \/ SyncApply
    \/ SyncReport
    \/ Return

Spec == Init /\ [][Next]_vars

-----------------------------------------------------------------------------
(* The naming classifier on its own: every name over a small alphabet *)

Alphabet == {"a", ".", "1", NL}
Names == UNION {[1..k -> Alphabet] : k \in 0..MaxNameLen}

InitNames ==
    /\ nm \in Names
    /\ nm_out = nm
    /\ nm_n = 0
    /\ p_obj = EmptyMap /\ p_props = EmptyMap /\ p_init = EmptyMap
    /\ p_first = EmptyMap /\ p_n = 0
    /\ SceneIdle

\* original_name = get_original_name(obj.name), applied to its own result
Strip ==
    /\ nm_n < MaxStrip
    /\ nm_out' = get_original_name(nm_out)
    /\ nm_n' = nm_n + 1
    /\ UNCHANGED <<scene, file, locals, exported, nm, p_obj, p_props, p_init,
                   p_first, p_n>>

NextNames == Strip

SpecNames == InitNames /\ [][NextNames]_vars

-----------------------------------------------------------------------------
(* The property overlay on its own: every store against every record *)

PropKeys == {"health", "stamina"}
PropValues == 1..MaxValue
Metadata ==
    {EmptyMap,
     [m \in {"health"} |-> [min |-> 0, max |-> 100]],
     [m \in {"stamina"} |-> [min |-> 0, max |-> 50]]}

PlainStores == UNION {[K -> PropValues] : K \in SUBSET PropKeys}

WithMetadata(plain, meta) ==
    [k \in DOMAIN plain \cup {RNA_UI} |->
        IF k = RNA_UI THEN meta ELSE plain[k]]

Stores ==
    PlainStores \cup {WithMetadata(s, m) : s \in PlainStores, m \in Metadata}

InitProperties ==
    /\ p_obj \in Stores
    /\ p_props \in Stores
    /\ p_init = p_obj
    /\ p_first = p_obj
    /\ p_n = 0
    /\ nm = <<>> /\ nm_out = <<>> /\ nm_n = 0
    /\ SceneIdle

\* apply_custom_properties(obj, props), again and again with the same props
Apply ==
    /\ p_n < MaxApply
    /\ p_obj' = apply_custom_properties(p_obj, p_props)
    /\ p_first' = IF p_n = 0 THEN p_obj' ELSE p_first
    /\ p_n' = p_n + 1
    /\ UNCHANGED <<scene, file, locals, exported, nm, nm_out, nm_n, p_props,
                   p_init>>

NextProperties == Apply

SpecProperties == InitProperties /\ [][NextProperties]_vars

-----------------------------------------------------------------------------
(* Properties *)

SyncSelection == selected_mesh_objects(selected_objects)
Hit(o) == get_original_name(o) \in DOMAIN original_data
RecordOf(o) == original_data[get_original_name(o)]
SyncReturned == pc = "return" /\ op = "sync"
ReorderFinished == pc = "order" /\ target_index = Len(desired_order)
Present(name) == Index(vertex_groups[obj], name) # -1
Entity(st, o) ==
    <<st.vertex_groups[o], st.deform[o], st.matrix_world[o], st.id_props[o]>>
Now ==
    [vertex_groups |-> vertex_groups, deform |-> deform,
     matrix_world |-> matrix_world, id_props |-> id_props]
PlainKeys(store) == DOMAIN store \ {RNA_UI}

\* C1: when the reordering loop of sync has finished, the groups of the
\* duplicate that group_order names appear in the same relative order as in
\* group_order, also when group_order names groups the duplicate lacks.
C1_ReorderReachesRelativeOrder ==
    ReorderFinished =>
        \A i, j \in 1..Len(desired_order) :
            (i < j /\ Present(desired_order[i]) /\ Present(desired_order[j]))
            => Index(vertex_groups[obj], desired_order[i])
                   < Index(vertex_groups[obj], desired_order[j])

\* C2: for every name n, get_original_name(n) is not a duplicate name and
\* stripping it again changes nothing, stacked suffixes included.
C2_StripIsCanonical ==
    nm_n >= 1 =>
        /\ ~ is_duplicate(nm_out)
        /\ get_original_name(nm_out) = nm_out

\* C3: after sync, the group names of every duplicate that has a record are
\* exactly its pre-sync group names that occur in the record's group_order:
\* the others are removed, those are kept, none is created.
C3_PruningKeepsExactlyRecordedGroups ==
    SyncReturned =>
        \A o \in SyncSelection :
            Hit(o) => Range(vertex_groups[o]) =
                          Range(pre.vertex_groups[o])
                              \cap Range(RecordOf(o).group_order)

C3_Witness ==
    /\ SyncReturned
    /\ \E o \in SyncSelection :
          /\ Hit(o)
          /\ Range(vertex_groups[o]) # Range(pre.vertex_groups[o])
          /\ Range(vertex_groups[o]) # {}
          /\ Range(vertex_groups[o]) # Range(RecordOf(o).group_order)

\* C4: an entity of a sync batch whose original name is no key of the
\* snapshot gets a warning naming it and is left as it was; every other
\* entity of the batch, whose original name is a key, is still reconciled
\* (groups pruned, pivot and properties taken from its record).
C4_LookupMissSkipsOnlyThatEntity ==
    SyncReturned =>
        \A o \in SyncSelection :
            /\ ~ Hit(o) =>
                  /\ Warning("Original not found for", o) \in reports
                  /\ Entity(Now, o) = Entity(pre, o)
            /\ Hit(o) =>
                  /\ Range(vertex_groups[o]) \subseteq DOMAIN RecordOf(o).groups
                  /\ matrix_world[o] = RecordOf(o).matrix_world
                  /\ PlainKeys(id_props[o])
                        = PlainKeys(RecordOf(o).custom_properties)
                  /\ \A k \in PlainKeys(id_props[o]) :
                        id_props[o][k] = RecordOf(o).custom_properties[k]

C4_Witness ==
    /\ SyncReturned
    /\ \E o \in SyncSelection : ~ Hit(o)
    /\ \E o \in SyncSelection : Hit(o) /\ Entity(Now, o) # Entity(pre, o)

\* C5: an export invoked with no selected entity or with a duplicate among
\* them, and a sync invoked with no selected entity, with an original among
\* them or without a snapshot file, is refused and changes neither the
\* snapshot file nor any entity.
C5_RefusedOperatorsMutateNothing ==
    LET objs == selected_mesh_objects(selected_objects)
        export_violation ==
            objs = {} \/ \E o \in objs : is_duplicate(o)
        sync_violation ==
            objs = {} \/ (\E o \in objs : ~ is_duplicate(o)) \/ ~ pre.file.exists
        refused ==
            /\ pc = "poll_failed"
            /\ file = pre.file
            /\ \A o \in Objects : Entity(Now, o) = Entity(pre, o)
    IN  /\ (pc # "idle" /\ op = "export" /\ export_violation) => refused
        /\ (pc # "idle" /\ op = "sync" /\ sync_violation) => refused

C5_Witness ==
    /\ pc = "poll_failed"
    /\ op = "export"
    /\ \E o \in selected_mesh_objects(selected_objects) : is_duplicate(o)
    /\ \E o \in selected_mesh_objects(selected_objects) : ~ is_duplicate(o)
    /\ file.exists

\* C6: after apply_custom_properties the entity's keys other than _RNA_UI
\* are exactly the record's, each with the record's value; _RNA_UI is the
\* record's value when the record has it, and is as it was on the entity
\* when the record has none.
C6_OverlayResult ==
    p_n >= 1 =>
        /\ PlainKeys(p_obj) = PlainKeys(p_props)
        /\ \A k \in PlainKeys(p_obj) : p_obj[k] = p_props[k]
        /\ RNA_UI \in DOMAIN p_props =>
              RNA_UI \in DOMAIN p_obj /\ p_obj[RNA_UI] = p_props[RNA_UI]
        /\ RNA_UI \notin DOMAIN p_props =>
              /\ RNA_UI \in DOMAIN p_obj <=> RNA_UI \in DOMAIN p_init
              /\ RNA_UI \in DOMAIN p_init => p_obj[RNA_UI] = p_init[RNA_UI]

\* the record's metadata is about health, the entity's stale one about
\* stamina, and the entity has a key the record lacks
C6_Witness ==
    /\ p_n = 1
    /\ RNA_UI \in DOMAIN p_props /\ DOMAIN p_props[RNA_UI] = {"health"}
    /\ RNA_UI \in DOMAIN p_init /\ DOMAIN p_init[RNA_UI] = {"stamina"}
    /\ PlainKeys(p_init) \ PlainKeys(p_props) # {}
    /\ DOMAIN p_obj[RNA_UI] = {"health"}

\* C7: applying apply_custom_properties a second time with the same record
\* leaves the store the first application produced.
C7_OverlayIdempotent == p_n >= 2 => p_obj = p_first

C7_Witness ==
    /\ p_n = 2
    /\ p_first # p_init
    /\ Cardinality(PlainKeys(p_init) \ PlainKeys(p_props)) = 2

\* C8: the keys of the snapshot file are exactly the names of the entities
\* of the most recent export; an original an earlier export recorded and
\* the latest one did not select is gone.
C8_ExportIsFullReplace ==
    file.exists => DOMAIN file.data = exported

C8_Witness ==
    /\ pc = "return" /\ op = "export"
    /\ pre.file.exists
    /\ DOMAIN pre.file.data \ exported # {}
    /\ DOMAIN file.data = exported

\* C9: in every record of the snapshot file the names of group_order are the
\* keys of groups, group_order has no name twice and lists the entity's
\* groups in their host order.
C9_SnapshotRecordInvariant ==
    file.exists =>
        \A n \in DOMAIN file.data :
            LET r == file.data[n]
            IN  /\ Range(r.group_order) = DOMAIN r.groups
                /\ \A i, j \in DOMAIN r.group_order :
                      i # j => r.group_order[i] # r.group_order[j]
                /\ r.group_order = vertex_groups[n]

\* a record with several groups, one of them without any vertex
C9_Witness ==
    /\ file.exists
    /\ \E n \in DOMAIN file.data :
          /\ Len(file.data[n].group_order) >= 2
          /\ \E g \in DOMAIN file.data[n].groups :
                DOMAIN file.data[n].groups[g] = {}

\* C10 as stated: at the end of the step for target position t, every group
\* group_order[t'], t' <= t, that the duplicate has is at index t'.
C10_PlacedPrefixAtTargetIndex ==
    pc = "order" =>
        \A t \in 0..(target_index - 1) :
            Present(desired_order[t + 1])
            => Index(vertex_groups[obj], desired_order[t + 1]) = t

PlacedPrefixBounded ==
    pc = "order" =>
        \A t \in 0..(target_index - 1) :
            Present(desired_order[t + 1]) =>
                /\ Index(vertex_groups[obj], desired_order[t + 1]) <= t
                /\ (\A u \in 0..t : Present(desired_order[u + 1]))
                   => Index(vertex_groups[obj], desired_order[t + 1]) = t

PlacedPrefixKept ==
    (pc = "order" /\ pc' = "order") =>
        \A t \in 0..(target_index - 1) :
            Index(vertex_groups'[obj], desired_order[t + 1])
                = Index(vertex_groups[obj], desired_order[t + 1])

\* C10 amended: at the end of the step for target position t, every group
\* group_order[t'], t' <= t, that the duplicate has is at an index of at
\* most t', and at exactly t' when the duplicate has every group
\* group_order[0..t']; no later swap changes the index of such a group.
C10_PlacedPrefixAmended == [](PlacedPrefixBounded) /\ [][PlacedPrefixKept]_vars

\* the loop has ended, a swap was made, and a group the duplicate has sits
\* below its target position because the duplicate lacks an earlier one
C10_Witness ==
    /\ ReorderFinished
    /\ vertex_groups[obj]
          # prune(pre.vertex_groups[obj], DOMAIN original.groups)
    /\ \E t \in 0..(target_index - 1) :
          /\ Present(desired_order[t + 1])
          /\ Index(vertex_groups[obj], desired_order[t + 1]) < t

=============================================================================
